---- MODULE Spec2Model ----
(***************************************************************************)
(* Model of scripts/generate-upstream-sync-report.py: the Backport: footer *)
(* scan (get_handled_upstream_shas), the upstream filter                   *)
(* (get_upstream_commits) and the pipeline of main().                      *)
(*                                                                         *)
(* Text is modelled as sequences of one-character strings, so that the     *)
(* splitting, stripping and prefix tests of the script are computed rather *)
(* than assumed.  The git object store is a set of commit ids (two-        *)
(* character sequences) over a fixed commit graph; an abbreviated id is a  *)
(* proper prefix of an id.                                                 *)
(***************************************************************************)
EXTENDS Naturals, Sequences, FiniteSets

VARIABLES
    pc,          \* position of main()
    run,         \* number of the current invocation of the script
    store,       \* commits present in the local git object store
    remoteAdded, \* TRUE when the remote "upstream" is configured
    downstream,  \* commit messages of merge_base..main, newest first
    reportFile,  \* contents of UPSTREAM_SYNC_REPORT.md
    effects,     \* external effects of the current run, in order
    steps,       \* pipeline steps the current run has executed, in order
    failedAt,    \* the step whose failure ended the run, or "none"
    handled,     \* get_handled_upstream_shas: the set being accumulated
    bodies,      \* commit bodies the scan has still to visit
    lines,       \* lines of the current body still to visit
    entries,     \* entries of the current footer line still to process
    warnings,    \* warnings printed by resolve_sha in the current phase
    last,        \* the entry processed last, with the state before it
    extracted,   \* every entry the scan has taken from a footer line
    upstreamLog, \* output of git log --oneline --no-merges base..upstream/main
    all_shas,    \* get_upstream_commits: the list parsed from upstreamLog
    pending,     \* get_upstream_commits: entries of all_shas not yet visited
    unhandled,   \* get_upstream_commits: the result being accumulated
    scans        \* completed scans: downstream text, store and result

vars == <<pc, run, store, remoteAdded, downstream, reportFile, effects, steps,
          failedAt, handled, bodies, lines, entries, warnings, last,
          extracted, upstreamLog, all_shas, pending, unhandled, scans>>

scanVars == <<handled, bodies, lines, entries, warnings, last, extracted>>
filterVars == <<upstreamLog, all_shas, pending, unhandled>>
envVars == <<store, remoteAdded, downstream, reportFile>>

\* ------------------------------------------------------------------ bounds
MaxEntries == 2    \* footer entries in a generated downstream history
MaxTail == 3       \* characters after the line head in a generated line
MaxUpstream == 3   \* lines of a generated upstream listing
MaxRuns == 3       \* invocations of the script in one behaviour

\* ------------------------------------------------------------ characters
NUL == "NUL"
LF == "\n"
Prefix == <<"B", "a", "c", "k", "p", "o", "r", "t", ":">>
Dots == <<".", ".", ".">>
None == <<>>

\* str.strip() and str.split() without argument: whitespace
IsSpace(c) == c \in {" ", "\t", "\n"}

RECURSIVE LStrip(_)
LStrip(s) == IF s # <<>> /\ IsSpace(Head(s)) THEN LStrip(Tail(s)) ELSE s

RECURSIVE RStrip(_)
RStrip(s) ==
    IF s # <<>> /\ IsSpace(s[Len(s)]) THEN RStrip(SubSeq(s, 1, Len(s) - 1)) ELSE s

Strip(s) == RStrip(LStrip(s))

\* str.split(sep) for a one-character separator
RECURSIVE SplitOn(_, _)
SplitOn(s, sep) ==
    IF \A i \in 1..Len(s) : s[i] # sep
    THEN <<s>>
    ELSE LET i == CHOOSE k \in 1..Len(s) :
                      s[k] = sep /\ \A j \in 1..(k - 1) : s[j] # sep
         IN  <<SubSeq(s, 1, i - 1)>> \o SplitOn(SubSeq(s, i + 1, Len(s)), sep)

\* str.splitlines()
RECURSIVE SplitLines(_)
SplitLines(s) ==
    IF s = <<>> THEN <<>>
    ELSE IF \A i \in 1..Len(s) : s[i] # LF
    THEN <<s>>
    ELSE LET i == CHOOSE k \in 1..Len(s) :
                      s[k] = LF /\ \A j \in 1..(k - 1) : s[j] # LF
         IN  <<SubSeq(s, 1, i - 1)>> \o SplitLines(SubSeq(s, i + 1, Len(s)))

\* str.startswith(p)
StartsWith(s, p) == Len(s) >= Len(p) /\ SubSeq(s, 1, Len(p)) = p

\* line.split()[0]: the first whitespace-separated word of a non-blank line
RECURSIVE TakeWord(_)
TakeWord(s) ==
    IF s = <<>> \/ IsSpace(Head(s)) THEN <<>> ELSE <<Head(s)>> \o TakeWord(Tail(s))

FirstWord(s) == TakeWord(LStrip(s))

\* every line followed by a newline, as git prints them
RECURSIVE JoinLines(_)
JoinLines(ls) ==
    IF ls = <<>> THEN <<>> ELSE Head(ls) \o <<LF>> \o JoinLines(Tail(ls))

\* positions where "..." starts in an entry
DotsAt(e) == {i \in 1..Len(e) : i + 2 <= Len(e) /\ SubSeq(e, i, i + 2) = Dots}

\* "..." in entry
HasDots(e) == DotsAt(e) # {}

\* entry.split("...", 1), both parts stripped
SplitDots(e) ==
    LET i == CHOOSE k \in DotsAt(e) : \A j \in DotsAt(e) : k <= j
    IN  <<Strip(SubSeq(e, 1, i - 1)), Strip(SubSeq(e, i + 3, Len(e)))>>

parse_backport_footer(value) ==
    LET parts == SplitOn(value, ",")
        stripped == [i \in 1..Len(parts) |-> Strip(parts[i])]
    IN  SelectSeq(stripped, LAMBDA e : e # <<>>)

\* ------------------------------------------------------- the git store
M  == <<"a", "1">>   \* the merge base, a root commit
U1 == <<"a", "2">>
U2 == <<"b", "1">>
S1 == <<"c", "1">>   \* a side branch off the merge base
MG == <<"e", "1">>   \* merge of U2 (first parent) and S1
U3 == <<"e", "2">>
U4 == <<"b", "2">>   \* published upstream later

Universe == {M, U1, U2, S1, MG, U3, U4}

\* git's traversal order, newest first
Order == <<U4, U3, MG, S1, U2, U1, M>>

Parents(c) ==
    CASE c = M  -> <<>>
      [] c = U1 -> <<M>>
      [] c = U2 -> <<U1>>
      [] c = S1 -> <<M>>
      [] c = MG -> <<U2, S1>>
      [] c = U3 -> <<MG>>
      [] c = U4 -> <<U3>>

RECURSIVE Reach(_)
Reach(c) == {c} \cup UNION {Reach(Parents(c)[i]) : i \in 1..Len(Parents(c))}

Store0 == Universe \ {U4}

\* git rev-parse --verify: a full id or an abbreviation naming one commit
GitRevParse(ref, st) ==
    LET m == {c \in st : StartsWith(c, ref)}
    IN  IF ref # <<>> /\ Cardinality(m) = 1 THEN CHOOSE c \in m : TRUE ELSE None

\* resolve_sha: the full id, or None (with a warning) when rev-parse fails
resolve_sha(sha, st) == GitRevParse(sha, st)

Warned(sha, st) == IF resolve_sha(sha, st) = None THEN 1 ELSE 0

\* stdout of git log --format=%H old^..new, run with check=False and stripped:
\* empty when old has no parent (the command fails)
GitLogRange(old, new) ==
    IF Parents(old) = <<>> THEN <<>>
    ELSE LET keep == Reach(new) \ Reach(Parents(old)[1])
         IN  Strip(JoinLines(SelectSeq(Order, LAMBDA c : c \in keep)))

\* a range that always adds its two ends, whatever is listed
RangeShas_WithEnds(old, new) ==
    LET ls == SplitLines(GitLogRange(old, new))
    IN  {ls[i] : i \in {j \in 1..Len(ls) : ls[j] # <<>>}} \cup {old, new}

\* the shas a range entry adds: for sha in range_output.splitlines(): if sha
RangeShas(old, new) ==
    LET ls == SplitLines(GitLogRange(old, new))
    IN  {ls[i] : i \in {j \in 1..Len(ls) : ls[j] # <<>>}}

\* stdout of git log --format=%B%x00 base..main, before run_command strips it
GitLogBodies(msgs) ==
    IF msgs = <<>> THEN <<>>
    ELSE LET F[i \in 1..Len(msgs)] ==
                 LET one == msgs[i] \o <<NUL, LF>>
                 IN  IF i = 1 THEN one ELSE F[i - 1] \o one
         IN  F[Len(msgs)]

\* run_command: result.stdout.strip()
run_command(stdout) == Strip(stdout)

\* ------------------------------------------- get_handled_upstream_shas
NoEntry == [kind |-> "none", entry |-> <<>>, before |-> {}, warnedBefore |-> 0]

\* log_output = run_command(git log --format=%B%x00 base..main) succeeds:
\* handled = set(), and the loop over log_output.split("\x00") begins
ScanStart ==
    /\ pc = "scan"
    /\ pc' = "scan_loop"
    /\ handled' = {}
    /\ bodies' = SplitOn(run_command(GitLogBodies(downstream)), NUL)
    /\ lines' = <<>>
    /\ entries' = <<>>
    /\ warnings' = 0
    /\ last' = NoEntry
    /\ extracted' = <<>>
    /\ steps' = Append(steps, "scan")
    /\ UNCHANGED <<run, envVars, effects, failedAt, filterVars, scans>>

\* the git log call fails: CalledProcessError leaves main()
ScanLogFails ==
    /\ pc = "scan"
    /\ pc' = "raised"
    /\ failedAt' = "scan"
    /\ steps' = Append(steps, "scan")
    /\ UNCHANGED <<run, envVars, effects, scanVars, filterVars, scans>>

\* for commit_body in ...: the next body, cut into lines
NextBody ==
    /\ pc = "scan_loop"
    /\ entries = <<>> /\ lines = <<>> /\ bodies # <<>>
    /\ lines' = SplitLines(Head(bodies))
    /\ bodies' = Tail(bodies)
    /\ UNCHANGED <<pc, run, envVars, effects, steps, failedAt, handled, entries,
                   warnings, last, extracted, filterVars, scans>>

\* the entries of a line: none unless line.startswith("Backport:")
LineEntries(line) ==
    IF ~StartsWith(line, Prefix) THEN <<>>
    ELSE parse_backport_footer(Strip(SubSeq(line, Len(Prefix) + 1, Len(line))))

\* for line in commit_body.splitlines(): the next line
NextLine ==
    /\ pc = "scan_loop"
    /\ entries = <<>> /\ lines # <<>>
    /\ entries' = LineEntries(Head(lines))
    /\ extracted' = extracted \o LineEntries(Head(lines))
    /\ lines' = Tail(lines)
    /\ UNCHANGED <<pc, run, envVars, effects, steps, failedAt, handled, bodies,
                   warnings, last, filterVars, scans>>

\* a range that keeps the endpoint that resolved when the other did not
RangeAdds_KeepsResolvedEnd(entry, st) ==
    LET parts == SplitDots(entry)
        old_full == resolve_sha(parts[1], st)
        new_full == resolve_sha(parts[2], st)
    IN  IF old_full = None \/ new_full = None
        THEN {old_full, new_full} \ {None}
        ELSE RangeShas(old_full, new_full)

\* what a range entry old...new adds to handled
RangeAdds(entry, st) ==
    LET parts == SplitDots(entry)
        old_full == resolve_sha(parts[1], st)
        new_full == resolve_sha(parts[2], st)
    IN  IF old_full = None \/ new_full = None THEN {}
        ELSE RangeShas(old_full, new_full)

RangeWarnings(entry, st) ==
    LET parts == SplitDots(entry)
    IN  Warned(parts[1], st) + Warned(parts[2], st)

\* a single sha added as written, resolved or not
BareAdds_AsWritten(entry, st) == {entry}

\* what a single-sha entry adds to handled
BareAdds(entry, st) ==
    LET full == resolve_sha(entry, st)
    IN  IF full # None THEN {full} ELSE {}

\* a range that adds its two ends only
ProcessRange_EndsOnly ==
    /\ pc = "scan_loop"
    /\ entries # <<>> /\ HasDots(Head(entries))
    /\ handled' = handled \cup
           ({resolve_sha(SplitDots(Head(entries))[1], store),
             resolve_sha(SplitDots(Head(entries))[2], store)} \ {None})
    /\ warnings' = warnings + RangeWarnings(Head(entries), store)
    /\ last' = [kind |-> "range", entry |-> Head(entries), before |-> handled,
                warnedBefore |-> warnings]
    /\ entries' = Tail(entries)
    /\ UNCHANGED <<pc, run, envVars, effects, steps, failedAt, bodies, lines,
                   extracted, filterVars, scans>>

\* for entry in parse_backport_footer(value): if "..." in entry
ProcessRange ==
    /\ pc = "scan_loop"
    /\ entries # <<>> /\ HasDots(Head(entries))
    /\ handled' = handled \cup RangeAdds(Head(entries), store)
    /\ warnings' = warnings + RangeWarnings(Head(entries), store)
    /\ last' = [kind |-> "range", entry |-> Head(entries), before |-> handled,
                warnedBefore |-> warnings]
    /\ entries' = Tail(entries)
    /\ UNCHANGED <<pc, run, envVars, effects, steps, failedAt, bodies, lines,
                   extracted, filterVars, scans>>

\* else: a single sha
ProcessBare ==
    /\ pc = "scan_loop"
    /\ entries # <<>> /\ ~HasDots(Head(entries))
    /\ handled' = handled \cup BareAdds(Head(entries), store)
    /\ warnings' = warnings + Warned(Head(entries), store)
    /\ last' = [kind |-> "bare", entry |-> Head(entries), before |-> handled,
                warnedBefore |-> warnings]
    /\ entries' = Tail(entries)
    /\ UNCHANGED <<pc, run, envVars, effects, steps, failedAt, bodies, lines,
                   extracted, filterVars, scans>>

\* return handled
ScanReturn ==
    /\ pc = "scan_loop"
    /\ entries = <<>> /\ lines = <<>> /\ bodies = <<>>
    /\ pc' = "scanned"
    /\ scans' = scans \cup {[run |-> run, text |-> downstream, store |-> store,
                             result |-> handled]}
    /\ UNCHANGED <<run, envVars, effects, steps, failedAt, scanVars, filterVars>>

ScanNext ==
    \/ ScanStart
    \/ ScanLogFails
    \/ NextBody
    \/ NextLine
    \/ ProcessRange
    \/ ProcessBare
    \/ ScanReturn

\* the whole scan as a function of the downstream messages and the store
EntryAdds(entry, st) ==
    IF HasDots(entry) THEN RangeAdds(entry, st) ELSE BareAdds(entry, st)

HandledOf(msgs, st) ==
    LET bs == SplitOn(run_command(GitLogBodies(msgs)), NUL)
        OfLine(line) ==
            LET es == LineEntries(line)
            IN  UNION {EntryAdds(es[i], st) : i \in 1..Len(es)}
        OfBody(b) ==
            LET ls == SplitLines(b)
            IN  UNION {OfLine(ls[i]) : i \in 1..Len(ls)}
    IN  UNION {OfBody(bs[i]) : i \in 1..Len(bs)}

\* ------------------------------------------- downstream histories
SeqsUpTo(S, n) == UNION {[1..k -> S] : k \in 0..n}

Range(old, new) == old \o Dots \o new

Short(c) == <<c[1]>>
Unknown == <<"d">>

EntryPool ==
    { Short(U2), Short(M), Unknown, U3,
      Range(U1, Short(U2)), Range(M, U2), Range(MG, U3), Range(U1, U3),
      Range(U3, U1), Range(S1, U2), Range(Unknown, U3), Range(U1, Unknown),
      Range(Short(M), Unknown) }

Footer(e) == Prefix \o <<" ">> \o e

SepKinds == {"comma", "line", "body"}

\* messages carrying the entries es, consecutive entries separated as seps says
RECURSIVE EntryMsgs(_, _)
EntryMsgs(es, seps) ==
    IF es = <<>> THEN <<>>
    ELSE IF Len(es) = 1 THEN <<Footer(es[1]) \o <<LF>>>>
    ELSE LET rest == EntryMsgs(Tail(es), Tail(seps))
         IN  CASE seps[1] = "comma" ->
                    <<Footer(es[1]) \o <<",">>
                          \o SubSeq(rest[1], Len(Prefix) + 1, Len(rest[1]))>>
                        \o Tail(rest)
               [] seps[1] = "line" ->
                    <<Footer(es[1]) \o <<LF>> \o rest[1]>> \o Tail(rest)
               [] seps[1] = "body" ->
                    <<Footer(es[1]) \o <<LF>>>> \o rest

Subject == <<"x", LF, LF>>
Leads == {<<>>, <<" ">>}

WithLead(lead, msgs) ==
    IF msgs = <<>> THEN IF lead = <<>> THEN <<>> ELSE <<lead>>
    ELSE <<lead \o msgs[1]>> \o Tail(msgs)

EntryShapes ==
    UNION { { <<es, seps>> :
                es \in [1..k -> EntryPool],
                seps \in [1..(IF k = 0 THEN 0 ELSE k - 1) -> SepKinds] } :
            k \in 0..MaxEntries }

EntryHistories ==
    { WithLead(lead, EntryMsgs(p[1], p[2])) : lead \in Leads, p \in EntryShapes }

\* single lines: a head that is, or resembles, the prefix, then a short tail
Heads ==
    { Prefix,
      <<"b", "a", "c", "k", "p", "o", "r", "t", ":">>,
      <<" ">> \o Prefix,
      <<"B", "a", "c", "k", "p", "o", "r", "t">>,
      <<"x">> \o Prefix }

TailChars == {" ", ",", "b"}
MalformedTail == <<" ", ",", ",", " ", "b", ",", ",">>
Tails == SeqsUpTo(TailChars, MaxTail) \cup {MalformedTail}

Places == {"first", "after_subject", "second_body"}

LineMsgs(line, place) ==
    CASE place = "first" -> <<line \o <<LF>>>>
      [] place = "after_subject" -> <<Subject \o line \o <<LF>>>>
      [] place = "second_body" -> <<<<"x", LF>>, line \o <<LF>>>>

LineHistories ==
    { LineMsgs(head \o tail, place) :
        head \in Heads, tail \in Tails, place \in Places }

ScanHistories == EntryHistories \cup LineHistories

\* ------------------------------------------------------------ the scan alone
ScanInit ==
    /\ pc = "scan"
    /\ run = 1
    /\ store = Store0
    /\ remoteAdded = TRUE
    /\ downstream \in ScanHistories
    /\ reportFile = <<"previous", 0>>
    /\ effects = <<>>
    /\ steps = <<>>
    /\ failedAt = "none"
    /\ handled = {}
    /\ bodies = <<>>
    /\ lines = <<>>
    /\ entries = <<>>
    /\ warnings = 0
    /\ last = NoEntry
    /\ extracted = <<>>
    /\ upstreamLog = <<>>
    /\ all_shas = <<>>
    /\ pending = <<>>
    /\ unhandled = <<>>
    /\ scans = {}

SpecScan == ScanInit /\ [][ScanNext]_vars

\* ------------------------------------------------------ claims on the scan
LastOld == resolve_sha(SplitDots(last.entry)[1], store)
LastNew == resolve_sha(SplitDots(last.entry)[2], store)
LastRangeResolved == last.kind = "range" /\ LastOld # None /\ LastNew # None
LastRangeUnresolved == last.kind = "range" /\ (LastOld = None \/ LastNew = None)
LastBare == resolve_sha(last.entry, store)

\* the commits on the paths from a up to b, both included
Path(a, b) == {c \in Universe : a \in Reach(c) /\ c \in Reach(b)}

\* C2: a range entry a...b whose endpoints resolve adds exactly the commits
\* on the inclusive path from a to b, whatever the commit graph
C2_RangeAddsInclusivePath ==
    LastRangeResolved => handled = last.before \cup Path(LastOld, LastNew)

\* C3: a bare entry that resolves adds exactly its canonical id (the set grows
\* by one when the id is new); one that does not resolve leaves the set as is
C3_BareEntry ==
    last.kind = "bare" =>
        IF LastBare # None
        THEN /\ handled = last.before \cup {LastBare}
             /\ Cardinality(handled) =
                    Cardinality(last.before)
                        + (IF LastBare \in last.before THEN 0 ELSE 1)
        ELSE handled = last.before

C3_Witness ==
    /\ last.kind = "bare"
    /\ LastBare # None
    /\ LastBare # last.entry
    /\ last.before # {}
    /\ LastBare \notin last.before
    /\ LastBare \in handled

\* C4: an entry with an unresolvable reference adds nothing (a range adds not
\* even the endpoint that resolved), prints a warning and never ends the scan,
\* which goes on to visit every later entry, line and body and returns
C4_UnresolvableSkipped ==
    /\ last.kind # "none" => pc \in {"scan_loop", "scanned"}
    /\ (last.kind = "bare" /\ LastBare = None) =>
           handled = last.before /\ warnings = last.warnedBefore + 1
    /\ LastRangeUnresolved =>
           handled = last.before /\ warnings > last.warnedBefore
    /\ pc = "scanned" => handled = HandledOf(downstream, store)

C4_Witness ==
    /\ pc = "scanned"
    /\ Len(extracted) = 2
    /\ HasDots(extracted[1])
    /\ resolve_sha(SplitDots(extracted[1])[1], store) # None
    /\ resolve_sha(SplitDots(extracted[1])[2], store) = None
    /\ handled = {resolve_sha(extracted[2], store)}
    /\ warnings = 1

\* C10: when both endpoints of a range resolve, the entry adds what
\* git log old^..new lists and nothing else - nothing at all, not even the
\* endpoints, when old has no parent or nothing is listed - without a warning
\* or an error, and the scan goes on
Listed(old, new) ==
    IF Parents(old) = <<>> THEN {}
    ELSE {c \in Universe : c \in Reach(new) /\ c \notin Reach(Parents(old)[1])}

RECURSIVE Flatten(_)
Flatten(ss) == IF ss = <<>> THEN <<>> ELSE Head(ss) \o Flatten(Tail(ss))

RECURSIVE Ascending(_)
Ascending(S) ==
    IF S = {} THEN <<>>
    ELSE LET m == CHOOSE x \in S : \A y \in S : x <= y
         IN  <<m>> \o Ascending(S \ {m})

Trimmed(s) ==
    LET solid == {k \in 1..Len(s) : ~IsSpace(s[k])}
    IN  IF solid = {} THEN <<>>
        ELSE SubSeq(s, CHOOSE k \in solid : \A j \in solid : k <= j,
                       CHOOSE k \in solid : \A j \in solid : j <= k)

Tokens(v) ==
    LET starts == Ascending({i \in 1..(Len(v) + 1) : i = 1 \/ v[i - 1] = ","})
        EndOf(i) == CHOOSE j \in (i - 1)..Len(v) :
                        /\ j = Len(v) \/ v[j + 1] = ","
                        /\ \A k \in i..j : v[k] # ","
        all == [n \in 1..Len(starts) |->
                    Trimmed(SubSeq(v, starts[n], EndOf(starts[n])))]
    IN  SelectSeq(all, LAMBDA t : t # <<>>)

FooterTokens(line) ==
    IF StartsWith(line, Prefix)
    THEN Tokens(SubSeq(line, Len(Prefix) + 1, Len(line)))
    ELSE <<>>

MessageEntries(msg) ==
    LET ls == SplitOn(msg, LF)
    IN  Flatten([i \in 1..Len(ls) |-> FooterTokens(ls[i])])

ExpectedEntries(msgs) == Flatten([i \in 1..Len(msgs) |-> MessageEntries(msgs[i])])

\* C5: the entries taken from the commit bodies are exactly the trimmed,
\* non-empty comma-separated tokens after the prefix on the lines that begin
\* with the literal Backport: (no leading whitespace); no other line yields one
C5_EntriesExtracted ==
    pc = "scanned" => extracted = ExpectedEntries(downstream)

\* the part of C5 that the scan keeps: every message line after the first
\* of the newest message, and a first line without leading whitespace
NoLeadingSpace == downstream = <<>> \/ downstream[1] = LStrip(downstream[1])

C5_EntriesExtractedUnlessLeadingSpace ==
    (pc = "scanned" /\ NoLeadingSpace) => extracted = ExpectedEntries(downstream)

RECURSIVE Reverse(_)
Reverse(ss) == IF ss = <<>> THEN <<>> ELSE Reverse(Tail(ss)) \o <<Head(ss)>>

\* C6: the handled set is the union of what each entry adds (a set, so
\* neither the order of the entries and lines nor a repetition shows), and
\* the same set results when the commit bodies come in the opposite order
C6_OrderIndependent ==
    pc = "scanned" =>
        /\ handled =
               UNION {EntryAdds(e, store) :
                        e \in {extracted[i] : i \in 1..Len(extracted)}}
        /\ handled = HandledOf(Reverse(downstream), store)

\* what holds of the order: histories none of whose messages starts with
\* whitespace
NoMessageLeadingSpace ==
    \A i \in 1..Len(downstream) : downstream[i] = LStrip(downstream[i])

C6_UnlessLeadingSpace == NoMessageLeadingSpace => C6_OrderIndependent

\* ------------------------------------------------- get_upstream_commits
\* commits = run_command(git log --oneline --no-merges base..upstream/main);
\* all_shas = [line.split()[0] for line in commits.split("\n") if line]
OnelineShas(stdout) ==
    LET ls == SplitOn(run_command(stdout), LF)
        kept == SelectSeq(ls, LAMBDA l : l # <<>>)
    IN  [i \in 1..Len(kept) |-> FirstWord(kept[i])]

FilterStart ==
    /\ pc = "filter"
    /\ pc' = "filter_loop"
    /\ all_shas' = OnelineShas(upstreamLog)
    /\ pending' = OnelineShas(upstreamLog)
    /\ unhandled' = <<>>
    /\ steps' = Append(steps, "filter")
    /\ UNCHANGED <<run, envVars, effects, failedAt, scanVars, upstreamLog, scans>>

FilterLogFails ==
    /\ pc = "filter"
    /\ pc' = "raised"
    /\ failedAt' = "filter"
    /\ steps' = Append(steps, "filter")
    /\ UNCHANGED <<run, envVars, effects, scanVars, filterVars, scans>>

\* the listed sha compared with handled as listed, not resolved
IsHandled_Unresolved(short_sha, hs, st) == short_sha \in hs

\* full = resolve_sha(short_sha); if full and full in handled: continue
IsHandled(short_sha, hs, st) ==
    resolve_sha(short_sha, st) # None /\ resolve_sha(short_sha, st) \in hs

\* for short_sha in all_shas
FilterStep ==
    /\ pc = "filter_loop"
    /\ pending # <<>>
    /\ unhandled' = IF IsHandled(Head(pending), handled, store)
                    THEN unhandled
                    ELSE Append(unhandled, Head(pending))
    /\ warnings' = warnings + Warned(Head(pending), store)
    /\ pending' = Tail(pending)
    /\ UNCHANGED <<pc, run, envVars, effects, steps, failedAt, handled, bodies,
                   lines, entries, last, extracted, upstreamLog, all_shas, scans>>

\* return unhandled
FilterReturn ==
    /\ pc = "filter_loop"
    /\ pending = <<>>
    /\ pc' = "filtered"
    /\ UNCHANGED <<run, envVars, effects, steps, failedAt, scanVars, filterVars,
                   scans>>

FilterNext ==
    \/ FilterStart
    \/ FilterLogFails
    \/ FilterStep
    \/ FilterReturn

\* upstream listings: one line per commit, an id or abbreviation and a subject
ShortPool == {U1, Short(U2), Short(M), Unknown, U3, Short(S1)}
HandledPool == {U1, U2, U3}

Oneline(shorts) ==
    JoinLines([i \in 1..Len(shorts) |-> shorts[i] \o <<" ", "s">>])

FilterInit ==
    /\ pc = "filter"
    /\ run = 1
    /\ store = Store0
    /\ remoteAdded = TRUE
    /\ downstream = <<>>
    /\ reportFile = <<"previous", 0>>
    /\ effects = <<>>
    /\ steps = <<>>
    /\ failedAt = "none"
    /\ handled \in SUBSET HandledPool
    /\ bodies = <<>>
    /\ lines = <<>>
    /\ entries = <<>>
    /\ warnings = 0
    /\ last = NoEntry
    /\ extracted = <<>>
    /\ upstreamLog \in {Oneline(shorts) : shorts \in SeqsUpTo(ShortPool, MaxUpstream)}
    /\ all_shas = <<>>
    /\ pending = <<>>
    /\ unhandled = <<>>
    /\ scans = {}

SpecFilter == FilterInit /\ [][FilterNext]_vars

\* C1: the result is the input list, in its order, without exactly the
\* entries that resolve to a member of handled; an entry that does not
\* resolve is kept
Kept(short_sha) ==
    ~(GitRevParse(short_sha, store) # None
        /\ GitRevParse(short_sha, store) \in handled)

C1_FilterUnhandled ==
    pc = "filtered" => unhandled = SelectSeq(all_shas, Kept)

C1_Witness ==
    /\ pc = "filtered"
    /\ Len(all_shas) = 3
    /\ handled = {U2}
    /\ GitRevParse(all_shas[1], store) = None
    /\ all_shas[2] # U2 /\ GitRevParse(all_shas[2], store) = U2
    /\ unhandled = <<all_shas[1], all_shas[3]>>

\* --------------------------------------------------------------- main()
\* the steps of main() that act the same whatever they read: step, position
\* before, position after
Proceed(step, from, to) ==
    /\ pc = from
    /\ pc' = to
    /\ steps' = Append(steps, step)

\* a command of the step exits non-zero: CalledProcessError leaves main()
Raise(step, from) ==
    /\ pc = from
    /\ pc' = "raised"
    /\ failedAt' = step
    /\ steps' = Append(steps, step)

\* run_command(git rev-parse --git-dir) succeeds
CheckGitRepo ==
    /\ Proceed("git_dir", "start", "toplevel")
    /\ UNCHANGED <<run, envVars, effects, failedAt, scanVars, filterVars, scans>>

\* except CalledProcessError: sys.exit(1)
NotAGitRepo ==
    /\ pc = "start"
    /\ pc' = "exit1"
    /\ failedAt' = "git_dir"
    /\ steps' = Append(steps, "git_dir")
    /\ UNCHANGED <<run, envVars, effects, scanVars, filterVars, scans>>

\* repo_root = Path(run_command(git rev-parse --show-toplevel)); os.chdir
RepoRoot ==
    /\ Proceed("toplevel", "toplevel", "check_remote")
    /\ UNCHANGED <<run, envVars, effects, failedAt, scanVars, filterVars, scans>>

RepoRootFails ==
    /\ Raise("toplevel", "toplevel")
    /\ UNCHANGED <<run, envVars, effects, scanVars, filterVars, scans>>

\* what git fetch upstream main may leave in the store
FetchOutcomes(st) == {st, st \cup {U4}}

RemoteAdd == IF remoteAdded THEN <<>> ELSE <<"git_remote_add">>

\* check_upstream_remote(): git remote add when the remote is missing, then
\* git fetch upstream main
CheckUpstreamRemote ==
    /\ Proceed("check_upstream_remote", "check_remote", "merge_base")
    /\ remoteAdded' = TRUE
    /\ \E st \in FetchOutcomes(store) : store' = st
    /\ effects' = effects \o RemoteAdd \o <<"git_fetch">>
    /\ UNCHANGED <<run, downstream, reportFile, failedAt, scanVars, filterVars,
                   scans>>

\* git remote add fails
RemoteAddFails ==
    /\ ~remoteAdded
    /\ Raise("check_upstream_remote", "check_remote")
    /\ UNCHANGED <<run, envVars, effects, scanVars, filterVars, scans>>

\* git fetch fails, after the remote was added if it was missing
FetchFails ==
    /\ Raise("check_upstream_remote", "check_remote")
    /\ remoteAdded' = TRUE
    /\ effects' = effects \o RemoteAdd
    /\ UNCHANGED <<run, store, downstream, reportFile, scanVars, filterVars,
                   scans>>

\* merge_base = get_merge_base()
GetMergeBase ==
    /\ Proceed("merge_base", "merge_base", "scan")
    /\ UNCHANGED <<run, envVars, effects, failedAt, scanVars, filterVars, scans>>

\* the failure is reported and the run goes on
MergeBaseFails_GoesOn ==
    /\ pc = "merge_base"
    /\ pc' = "scan"
    /\ failedAt' = "merge_base"
    /\ steps' = Append(steps, "merge_base")
    /\ UNCHANGED <<run, envVars, effects, scanVars, filterVars, scans>>

\* git merge-base main upstream/main fails
MergeBaseFails ==
    /\ Raise("merge_base", "merge_base")
    /\ UNCHANGED <<run, envVars, effects, scanVars, filterVars, scans>>

\* the newest upstream commit in the store
UpstreamTip(st) == IF U4 \in st THEN U4 ELSE U3

\* git's abbreviation of an id: the shortest prefix naming one commit
Abbrev(c, st) ==
    IF Cardinality({d \in st : d[1] = c[1]}) = 1 THEN Short(c) ELSE c

\* stdout of git log --oneline --no-merges base..upstream/main
GitLogOneline(st) ==
    LET keep == {c \in Reach(UpstreamTip(st)) \ Reach(M) : Len(Parents(c)) < 2}
        cs == SelectSeq(Order, LAMBDA c : c \in keep)
    IN  Oneline([i \in 1..Len(cs) |-> Abbrev(cs[i], st)])

\* all_upstream_shas = run_command(git log --oneline ...); total_upstream
CountUpstream ==
    /\ Proceed("count_upstream", "scanned", "filter")
    /\ upstreamLog' = GitLogOneline(store)
    /\ UNCHANGED <<run, envVars, effects, failedAt, scanVars, all_shas, pending,
                   unhandled, scans>>

CountUpstreamFails ==
    /\ Raise("count_upstream", "scanned")
    /\ UNCHANGED <<run, envVars, effects, scanVars, filterVars, scans>>

\* no early return: an empty report is written
NothingToReport_Writes ==
    /\ unhandled = <<>>
    /\ Proceed("nothing_to_report", "filtered", "done")
    /\ reportFile' = <<"report", run>>
    /\ effects' = Append(effects, "write_report")
    /\ UNCHANGED <<run, store, remoteAdded, downstream, failedAt, scanVars,
                   filterVars, scans>>

\* if not upstream_shas: return
NothingToReport ==
    /\ unhandled = <<>>
    /\ Proceed("nothing_to_report", "filtered", "done")
    /\ UNCHANGED <<run, envVars, effects, failedAt, scanVars, filterVars, scans>>

\* for sha in upstream_shas: upstream_commits.append(get_commit_info(sha))
CollectUpstreamInfo ==
    /\ unhandled # <<>>
    /\ Proceed("commit_info", "filtered", "our_commits")
    /\ UNCHANGED <<run, envVars, effects, failedAt, scanVars, filterVars, scans>>

CollectUpstreamInfoFails ==
    /\ unhandled # <<>>
    /\ Raise("commit_info", "filtered")
    /\ UNCHANGED <<run, envVars, effects, scanVars, filterVars, scans>>

\* our_commits = get_our_commits(merge_base)
CollectOurCommits ==
    /\ Proceed("our_commits", "our_commits", "generate")
    /\ UNCHANGED <<run, envVars, effects, failedAt, scanVars, filterVars, scans>>

CollectOurCommitsFails ==
    /\ Raise("our_commits", "our_commits")
    /\ UNCHANGED <<run, envVars, effects, scanVars, filterVars, scans>>

\* report = generate_report_with_claude(...) returns
GenerateReport ==
    /\ Proceed("generate", "generate", "write")
    /\ effects' = Append(effects, "api_request")
    /\ UNCHANGED <<run, envVars, failedAt, scanVars, filterVars, scans>>

\* the client cannot be built, or the request fails: the exception leaves main()
GenerationFails ==
    /\ Raise("generate", "generate")
    /\ \E sent \in BOOLEAN :
           effects' = IF sent THEN Append(effects, "api_request") ELSE effects
    /\ UNCHANGED <<run, envVars, scanVars, filterVars, scans>>

\* output_file.write_text(report)
WriteReport ==
    /\ Proceed("write", "write", "done")
    /\ reportFile' = <<"report", run>>
    /\ effects' = Append(effects, "write_report")
    /\ UNCHANGED <<run, store, remoteAdded, downstream, failedAt, scanVars,
                   filterVars, scans>>

\* downstream histories of the pipeline
MainHistories ==
    { <<<<"x", LF>>>>,
      <<Footer(Short(U2)) \o <<LF>>>>,
      <<Footer(Range(U1, U3)) \o <<",">> \o U4 \o <<LF>>>> }

\* the script is invoked again, on a history that may have changed
Restart ==
    /\ pc \in {"done", "raised", "exit1"}
    /\ run < MaxRuns
    /\ run' = run + 1
    /\ pc' = "start"
    /\ downstream' \in MainHistories
    /\ effects' = <<>>
    /\ steps' = <<>>
    /\ failedAt' = "none"
    /\ handled' = {}
    /\ bodies' = <<>>
    /\ lines' = <<>>
    /\ entries' = <<>>
    /\ warnings' = 0
    /\ last' = NoEntry
    /\ extracted' = <<>>
    /\ upstreamLog' = <<>>
    /\ all_shas' = <<>>
    /\ pending' = <<>>
    /\ unhandled' = <<>>
    /\ UNCHANGED <<store, remoteAdded, reportFile, scans>>

Init ==
    /\ pc = "start"
    /\ run = 1
    /\ store = Store0
    /\ remoteAdded \in BOOLEAN
    /\ downstream \in MainHistories
    /\ reportFile = <<"previous", 0>>
    /\ effects = <<>>
    /\ steps = <<>>
    /\ failedAt = "none"
    /\ handled = {}
    /\ bodies = <<>>
    /\ lines = <<>>
    /\ entries = <<>>
    /\ warnings = 0
    /\ last = NoEntry
    /\ extracted = <<>>
    /\ upstreamLog = <<>>
    /\ all_shas = <<>>
    /\ pending = <<>>
    /\ unhandled = <<>>
    /\ scans = {}

Next ==
    \/ CheckGitRepo
    \/ NotAGitRepo
    \/ RepoRoot
    \/ RepoRootFails
    \/ CheckUpstreamRemote
    \/ RemoteAddFails
    \/ FetchFails
    \/ GetMergeBase
    \/ MergeBaseFails
    \/ ScanStart
    \/ ScanLogFails
    \/ NextBody
    \/ NextLine
    \/ ProcessRange
    \/ ProcessBare
    \/ ScanReturn
    \/ CountUpstream
    \/ CountUpstreamFails
    \/ FilterStart
    \/ FilterLogFails
    \/ FilterStep
    \/ FilterReturn
    \/ NothingToReport
    \/ CollectUpstreamInfo
    \/ CollectUpstreamInfoFails
    \/ CollectOurCommits
    \/ CollectOurCommitsFails
    \/ GenerateReport
    \/ GenerationFails
    \/ WriteReport
    \/ Restart

Spec == Init /\ [][Next]_vars

Count(e) == Cardinality({i \in 1..Len(effects) : effects[i] = e})

StoreWrites == {"git_remote_add", "git_fetch"}

\* C8 as stated: the git store is only read, and every run writes the report
\* file exactly once, as its last external effect, after the report was
\* generated
C8_ReadOnlyStoreOneWrite ==
    /\ \A i \in 1..Len(effects) : effects[i] \notin StoreWrites
    /\ \A i \in 1..Len(effects) :
           effects[i] = "write_report" =>
               i = Len(effects) /\ i > 1 /\ effects[i - 1] = "api_request"
    /\ pc = "done" => Count("write_report") = 1

\* C8: the store is written only by check_upstream_remote (git remote add when
\* the remote is missing, then git fetch), before anything else; the report
\* file is written at most once, as the last external effect and right after
\* the report was generated: exactly once in a run that completes with
\* unhandled commits, never in one that finds none
C8_StoreWrittenFirstOneWrite ==
    /\ \A i \in 1..Len(effects) :
           effects[i] \in StoreWrites =>
               /\ i <= 2
               /\ \A j \in 1..(i - 1) : effects[j] = "git_remote_add"
    /\ Count("git_remote_add") <= 1 /\ Count("git_fetch") <= 1
    /\ Count("write_report") <= 1
    /\ \A i \in 1..Len(effects) :
           effects[i] = "write_report" =>
               i = Len(effects) /\ i > 1 /\ effects[i - 1] = "api_request"
    /\ (pc = "done" /\ unhandled # <<>>) =>
           Count("write_report") = 1 /\ reportFile = <<"report", run>>
    /\ (pc = "done" /\ unhandled = <<>>) =>
           Count("write_report") = 0 /\ reportFile # <<"report", run>>

C8_Witness ==
    /\ pc = "done"
    /\ effects = <<"git_remote_add", "git_fetch", "api_request", "write_report">>
    /\ reportFile = <<"report", run>>

Pipeline ==
    <<"git_dir", "toplevel", "check_upstream_remote", "merge_base", "scan",
      "count_upstream", "filter", "commit_info", "our_commits", "generate",
      "write">>

UpTo(step) ==
    SubSeq(Pipeline, 1, CHOOSE i \in 1..Len(Pipeline) : Pipeline[i] = step)

\* C9: when the merge base cannot be computed or the report generation
\* fails, the run ends there as a failure: the failing step is the last one
\* executed and the report file is neither written nor changed
C9_FatalAborts ==
    failedAt \in {"merge_base", "generate"} =>
        /\ pc = "raised"
        /\ steps = UpTo(failedAt)
        /\ Count("write_report") = 0
        /\ reportFile # <<"report", run>>

C9_Witness ==
    /\ failedAt = "generate"
    /\ pc = "raised"
    /\ run = 2
    /\ reportFile = <<"report", 1>>
    /\ \E r \in scans : r.result # {}

====
